---------------------------- MODULE Spec2Model ----------------------------
(***************************************************************************)
(* A model of the generic directed graph of src/graph (Graph, Vertex,      *)
(* VertexIdx), of its structural transform filter_map and of the           *)
(* breadth-first search of src/graph/algo/bfs.rs.                          *)
(*                                                                         *)
(* A Graph<V, E> is a HashMap<VertexIdx, Vertex<V, E>>: here a function    *)
(* whose DOMAIN is the set of keys.  A Vertex is a record of its payload   *)
(* `weight` and of its `edges`, a HashMap<VertexIdx, E>: a function from   *)
(* the neighbours' ids to the edge payloads.  An Option is a set with at   *)
(* most one element.                                                       *)
(***************************************************************************)
EXTENDS Integers, Sequences, FiniteSets, TLC

\* ------------------------------------------------------------------ bounds

\* VertexIdx::new() is called at most MaxIdx times in a behaviour.
MaxIdx == 2
\* A graph holds at most MaxEdges edges.
MaxEdges == 3
\* insert_or_update_edges is given at most MaxBatch triples.
MaxBatch == 1
\* The width of usize, scaled down: usize::MAX is 2^UsizeBits - 1.
UsizeBits == 3
\* The graphs given to breadth_first_search have at most BfsVertices ids and
\* BfsEdges edges.
BfsVertices == 3
BfsEdges == 3
\* The width of u32 (EnhancedWeight::distance), scaled down.
DistanceBits == 3
\* The threads that call VertexIdx::new() at the same time.
NumThreads == 2
\* insert_or_update_edges is given at most BatchLen triples in the
\* specification of the batches, on graphs of at most BatchEdges edges.
BatchLen == 2
BatchEdges == 1
QueueVertices == 4

USIZE_MAX == 2 ^ UsizeBits - 1
U32_MAX == 2 ^ DistanceBits - 1

\* The ids a behaviour can hold: those VertexIdx::new() has returned.
Ids == 0 .. (MaxIdx - 1)

\* The payload types V and E are generic and never inspected by the code:
\* two opaque values each.
V == {"v1", "v2"}
E == {"e1", "e2"}

\* ------------------------------------------------------------ Option, maps

None == {}
Some(x) == {x}
IsSome(o) == o # {}
Unwrap(o) == CHOOSE x \in o : TRUE

\* HashMap::new()
EmptyMap == [k \in {} |-> 0]
\* HashMap::insert: a new entry, or the value of an existing key replaced.
MapInsert(m, k, v) == [x \in DOMAIN m \cup {k} |-> IF x = k THEN v ELSE m[x]]
\* HashMap::remove
MapRemove(m, k) == [x \in DOMAIN m \ {k} |-> m[x]]
\* HashMap::get
MapGet(m, k) == IF k \in DOMAIN m THEN Some(m[k]) ELSE None

\* ------------------------------------------------------------------ Vertex

Vertex(weight, edges) == [weight |-> weight, edges |-> edges]

neighbors(vertex) == {<<k, vertex.edges[k]>> : k \in DOMAIN vertex.edges}

is_adjacent(vertex, to) == \E e \in neighbors(vertex) : e[1] = to

\* --------------------------------------------------------------- VertexIdx

\* `idx + 1` does not fit in a usize.
add_overflows(idx) == idx + 1 > USIZE_MAX

\* The value stored with no remainder taken (`idx + 1`).
next_idx_unbounded(idx) == (idx + 1) % (USIZE_MAX + 1)

\* `(idx + 1) % usize::MAX`, the value compare_exchange is asked to store; the
\* sum is a usize, which a build without overflow checks wraps.
next_idx(idx) == ((idx + 1) % (USIZE_MAX + 1)) % USIZE_MAX

\* compare_exchange as a store that does not compare.
compare_exchange_blind(current, expected, new) ==
    [ok |-> TRUE, counter |-> new, value |-> expected]

\* compare_exchange returning, when it fails, the value it was given and not
\* the value the counter holds.
compare_exchange_stale(current, expected, new) ==
    IF current = expected
    THEN [ok |-> TRUE, counter |-> new, value |-> current]
    ELSE [ok |-> FALSE, counter |-> current, value |-> expected]

\* VERTEX_INCR_IDX.compare_exchange(expected, new, ..) when the counter holds
\* `current`: Ok(current) and the counter set to new if current = expected,
\* Err(current) and the counter as it was if not.
compare_exchange(current, expected, new) ==
    IF current = expected
    THEN [ok |-> TRUE, counter |-> new, value |-> current]
    ELSE [ok |-> FALSE, counter |-> current, value |-> current]

\* VertexIdx::new() without contention: the counter's value is returned and
\* the counter becomes (idx + 1) % usize::MAX.
VertexIdx_new(c) == [idx |-> c, counter |-> next_idx(c)]

\* ------------------------------------------------------------------- Graph

Graph_new == EmptyMap

get_vertex(g, vertex_idx) == MapGet(g, vertex_idx)

len(g) == Cardinality(DOMAIN g)

is_empty(g) == DOMAIN g = {}

\* insert_vertex with the number of vertices as the new id.
insert_vertex_len(g, c, weight) ==
    [graph   |-> MapInsert(g, len(g), Vertex(weight, EmptyMap)),
     counter |-> VertexIdx_new(c).counter,
     ret     |-> len(g)]

insert_vertex(g, c, weight) ==
    LET n == VertexIdx_new(c)
    IN  [graph   |-> MapInsert(g, n.idx, Vertex(weight, EmptyMap)),
         counter |-> n.counter,
         ret     |-> n.idx]

\* insert_or_update_vertex as a plain HashMap::insert of a fresh Vertex.
insert_or_update_vertex_fresh(g, weight, idx) ==
    MapInsert(g, idx, Vertex(weight, EmptyMap))

insert_or_update_vertex(g, weight, idx) ==
    LET removed == MapGet(g, idx)
        edges   == IF IsSome(removed) THEN Unwrap(removed).edges ELSE EmptyMap
    IN  MapInsert(MapRemove(g, idx), idx, Vertex(weight, edges))

\* remove_vertex without the loop that strips the edges targeting the vertex.
remove_vertex_no_purge(g, vertex_idx) ==
    IF vertex_idx \notin DOMAIN g
    THEN [graph |-> g, ret |-> None]
    ELSE [graph |-> MapRemove(g, vertex_idx), ret |-> Some(g[vertex_idx])]

\* remove_vertex with the edges stripped before the vertex is taken out: the
\* vertex returned has lost its self-loop.
remove_vertex_purge_first(g, vertex_idx) ==
    IF vertex_idx \notin DOMAIN g
    THEN [graph |-> g, ret |-> None]
    ELSE LET purged == [u \in DOMAIN g |->
                           [g[u] EXCEPT !.edges = MapRemove(@, vertex_idx)]]
         IN  [graph |-> MapRemove(purged, vertex_idx),
              ret   |-> Some(purged[vertex_idx])]

\* remove_vertex that looks the vertex up and leaves it in the map
\* (HashMap::get for HashMap::remove), the edges to it stripped all the same.
remove_vertex_get(g, vertex_idx) ==
    IF vertex_idx \notin DOMAIN g
    THEN [graph |-> g, ret |-> None]
    ELSE [graph |-> [u \in DOMAIN g |->
                       [g[u] EXCEPT !.edges = MapRemove(@, vertex_idx)]],
          ret   |-> Some(g[vertex_idx])]

remove_vertex(g, vertex_idx) ==
    IF vertex_idx \notin DOMAIN g
    THEN [graph |-> g, ret |-> None]
    ELSE LET removed_vertex == g[vertex_idx]
             rest == MapRemove(g, vertex_idx)
         IN  [graph |-> [u \in DOMAIN rest |->
                            [rest[u] EXCEPT !.edges = MapRemove(@, vertex_idx)]],
              ret   |-> Some(removed_vertex)]

\* insert_or_update_edge without the test that `to` is a vertex.
insert_or_update_edge_unchecked(g, from, to, weight) ==
    IF from \notin DOMAIN g
    THEN [graph |-> g, ret |-> None]
    ELSE [graph |-> [g EXCEPT ![from].edges = MapInsert(@, to, weight)],
          ret   |-> Some(TRUE)]

\* insert_or_update_edge that keeps the weight of an edge already there
\* (HashMap::entry(to).or_insert(weight)).
insert_or_update_edge_keep(g, from, to, weight) ==
    IF to \notin DOMAIN g \/ from \notin DOMAIN g
    THEN [graph |-> g, ret |-> None]
    ELSE [graph |-> [g EXCEPT ![from].edges =
                        IF to \in DOMAIN @ THEN @ ELSE MapInsert(@, to, weight)],
          ret   |-> Some(TRUE)]

\* ret is Some(self) or None: TRUE stands for the &mut Self.
insert_or_update_edge(g, from, to, weight) ==
    IF to \notin DOMAIN g
    THEN [graph |-> g, ret |-> None]
    ELSE IF from \notin DOMAIN g
         THEN [graph |-> g, ret |-> None]
         ELSE [graph |-> [g EXCEPT ![from].edges = MapInsert(@, to, weight)],
               ret   |-> Some(TRUE)]

\* insert_or_update_edges that gives up at the first triple with an end that
\* is not a vertex (the `?` of insert_or_update_edge).
RECURSIVE insert_or_update_edges_abort(_, _)
insert_or_update_edges_abort(g, edges) ==
    IF edges = <<>>
    THEN g
    ELSE LET from   == Head(edges)[1]
             to     == Head(edges)[2]
             weight == Head(edges)[3]
         IN  IF to \in DOMAIN g /\ from \in DOMAIN g
             THEN insert_or_update_edges_abort(
                      [g EXCEPT ![from].edges = MapInsert(@, to, weight)], Tail(edges))
             ELSE g

\* edges is a sequence of <<from, to, weight>>.
RECURSIVE insert_or_update_edges(_, _)
insert_or_update_edges(g, edges) ==
    IF edges = <<>>
    THEN g
    ELSE LET from   == Head(edges)[1]
             to     == Head(edges)[2]
             weight == Head(edges)[3]
             g1 == IF to \in DOMAIN g /\ from \in DOMAIN g
                   THEN [g EXCEPT ![from].edges = MapInsert(@, to, weight)]
                   ELSE g
         IN  insert_or_update_edges(g1, Tail(edges))

\* remove_edge that looks the weight up and leaves the edge in place
\* (HashMap::get for HashMap::remove).
remove_edge_get(g, from, to) ==
    IF from \notin DOMAIN g
    THEN [graph |-> g, ret |-> None]
    ELSE [graph |-> g, ret |-> MapGet(g[from].edges, to)]

remove_edge(g, from, to) ==
    IF from \notin DOMAIN g
    THEN [graph |-> g, ret |-> None]
    ELSE [graph |-> [g EXCEPT ![from].edges = MapRemove(@, to)],
          ret   |-> MapGet(g[from].edges, to)]

\* The edges of a graph, as <<from, to, weight>>.
EdgesOf(g) == UNION {{<<u, t, g[u].edges[t]>> : t \in DOMAIN g[u].edges} : u \in DOMAIN g}

\* ------------------------------------------------ HashMap iteration order

\* A HashMap is iterated in an order the program does not choose: any
\* sequence holding each element of S once.
RECURSIVE Orders(_)
Orders(S) ==
    IF S = {} THEN {<<>>}
    ELSE UNION {{<<x>> \o o : o \in Orders(S \ {x})} : x \in S}

\* The functions f on D with f[d] \in F[d].
RECURSIVE Choices(_, _)
Choices(F, D) ==
    IF D = {} THEN {EmptyMap}
    ELSE LET d == CHOOSE x \in D : TRUE
         IN  {MapInsert(f, d, v) : f \in Choices(F, D \ {d}), v \in F[d]}

\* One iteration order for the `edges` map of every vertex of g.
EdgeOrders(g) == Choices([u \in DOMAIN g |-> Orders(DOMAIN g[u].edges)], DOMAIN g)

\* -------------------------------------------------------------- filter_map

\* The first loop of filter_map with each kept vertex inserted as a new
\* vertex, under the next unused id.
RECURSIVE filter_map_vertices_new_ids(_, _, _)
filter_map_vertices_new_ids(vertex_map, keys, graph) ==
    IF keys = <<>>
    THEN graph
    ELSE LET new_vertex_weight == vertex_map[Head(keys)]
         IN  filter_map_vertices_new_ids(vertex_map, Tail(keys),
                 IF IsSome(new_vertex_weight)
                 THEN insert_vertex(graph, MaxIdx + len(graph),
                                    Unwrap(new_vertex_weight)).graph
                 ELSE graph)

\* The first loop of filter_map: vertex_map is called on every key, in the
\* order the keys are iterated, and what it keeps is inserted under the key.
RECURSIVE filter_map_vertices(_, _, _)
filter_map_vertices(vertex_map, keys, graph) ==
    IF keys = <<>>
    THEN graph
    ELSE LET vertex_idx == Head(keys)
             new_vertex_weight == vertex_map[vertex_idx]
         IN  filter_map_vertices(vertex_map, Tail(keys),
                 IF IsSome(new_vertex_weight)
                 THEN insert_or_update_vertex(graph, Unwrap(new_vertex_weight), vertex_idx)
                 ELSE graph)

\* The inner loop of filter_map leaving for the next old vertex (continue
\* 'outer) also when `to` is not in the new graph.
RECURSIVE filter_map_edges_skip_rest(_, _, _, _, _)
filter_map_edges_skip_rest(g, edge_map, from_vertex_idx, tos, acc) ==
    IF tos = <<>>
    THEN acc
    ELSE LET to_vertex_idx == Head(tos)
             old_edge == g[from_vertex_idx].edges[to_vertex_idx]
         IN  IF \/ get_vertex(acc.graph, from_vertex_idx) = None
                \/ get_vertex(acc.graph, to_vertex_idx) = None
             THEN acc
             ELSE LET new_edge_weight ==
                          edge_map[<<from_vertex_idx, to_vertex_idx, old_edge>>]
                      graph == IF IsSome(new_edge_weight)
                               THEN insert_or_update_edge(acc.graph, from_vertex_idx,
                                        to_vertex_idx, Unwrap(new_edge_weight)).graph
                               ELSE acc.graph
                  IN  filter_map_edges_skip_rest(g, edge_map, from_vertex_idx, Tail(tos),
                          [graph |-> graph,
                           calls |-> Append(acc.calls,
                                       <<from_vertex_idx, to_vertex_idx, old_edge>>)])

\* The inner loop of filter_map leaving for the next old vertex (continue
\* 'outer) also when edge_map has returned None.
RECURSIVE filter_map_edges_stop_on_none(_, _, _, _, _)
filter_map_edges_stop_on_none(g, edge_map, from_vertex_idx, tos, acc) ==
    IF tos = <<>>
    THEN acc
    ELSE LET to_vertex_idx == Head(tos)
             old_edge == g[from_vertex_idx].edges[to_vertex_idx]
             called == [acc EXCEPT !.calls =
                           Append(@, <<from_vertex_idx, to_vertex_idx, old_edge>>)]
         IN  IF get_vertex(acc.graph, from_vertex_idx) = None
             THEN acc
             ELSE IF get_vertex(acc.graph, to_vertex_idx) = None
             THEN filter_map_edges_stop_on_none(g, edge_map, from_vertex_idx, Tail(tos), acc)
             ELSE LET new_edge_weight ==
                          edge_map[<<from_vertex_idx, to_vertex_idx, old_edge>>]
                  IN  IF new_edge_weight = None
                      THEN called
                      ELSE filter_map_edges_stop_on_none(g, edge_map, from_vertex_idx,
                               Tail(tos),
                               [called EXCEPT !.graph =
                                   insert_or_update_edge(acc.graph, from_vertex_idx,
                                       to_vertex_idx, Unwrap(new_edge_weight)).graph])

\* The inner loop of filter_map over the edges of old vertex from_vertex_idx,
\* `tos` being the targets still to visit.  acc is the new graph and the calls
\* of edge_map made so far, each <<from, to, old edge weight>>.
RECURSIVE filter_map_edges(_, _, _, _, _)
filter_map_edges(g, edge_map, from_vertex_idx, tos, acc) ==
    IF tos = <<>>
    THEN acc
    ELSE LET to_vertex_idx == Head(tos)
             old_edge == g[from_vertex_idx].edges[to_vertex_idx]
         IN  IF get_vertex(acc.graph, from_vertex_idx) = None
             THEN acc    \* continue 'outer
             ELSE IF get_vertex(acc.graph, to_vertex_idx) = None
             THEN filter_map_edges(g, edge_map, from_vertex_idx, Tail(tos), acc)
             ELSE LET new_edge_weight ==
                          edge_map[<<from_vertex_idx, to_vertex_idx, old_edge>>]
                      graph == IF IsSome(new_edge_weight)
                               THEN insert_or_update_edge(acc.graph, from_vertex_idx,
                                        to_vertex_idx, Unwrap(new_edge_weight)).graph
                               ELSE acc.graph
                  IN  filter_map_edges(g, edge_map, from_vertex_idx, Tail(tos),
                          [graph |-> graph,
                           calls |-> Append(acc.calls,
                                       <<from_vertex_idx, to_vertex_idx, old_edge>>)])

\* The outer loop of filter_map over the old vertices still to visit.
RECURSIVE filter_map_outer(_, _, _, _, _)
filter_map_outer(g, edge_map, froms, eorder, acc) ==
    IF froms = <<>>
    THEN acc
    ELSE filter_map_outer(g, edge_map, Tail(froms), eorder,
             filter_map_edges(g, edge_map, Head(froms), eorder[Head(froms)], acc))

\* Graph::filter_map.  vertex_map is the closure as a function of the id;
\* edge_map is the closure as a function of <<from, to, old weight>>: it is
\* called at most once on an edge, so what it returns there is one value, also
\* when it reads the two new vertices it is given.  vorder is the order in
\* which self.vertices is iterated (by both loops: the map is not changed
\* between them), eorder[u] the order in which the edges of u are.
\* The result is the new graph and the calls of edge_map, in order.
filter_map(g, vertex_map, edge_map, vorder, eorder) ==
    filter_map_outer(g, edge_map, vorder, eorder,
        [graph |-> filter_map_vertices(vertex_map, vorder, Graph_new),
         calls |-> <<>>])

\* ---------------------------------------------------- breadth_first_search

EnhancedWeight(parent, distance, color, weight) ==
    [parent |-> parent, distance |-> distance, color |-> color, weight |-> weight]

\* The vertex_map closure with every distance starting at 0.
bfs_vertex_map_zero(g, src_vertex_idx) ==
    [idx \in DOMAIN g |->
        Some(EnhancedWeight(None, 0, IF idx = src_vertex_idx THEN "Grey" ELSE "White",
                            g[idx].weight))]

\* The vertex_map closure breadth_first_search gives to filter_map.
bfs_vertex_map(g, src_vertex_idx) ==
    [idx \in DOMAIN g |->
        LET vertex == get_vertex(g, idx)
        IN  IF vertex = None THEN None
            ELSE IF idx = src_vertex_idx
                 THEN Some(EnhancedWeight(None, 0, "Grey", Unwrap(vertex).weight))
                 ELSE Some(EnhancedWeight(None, U32_MAX, "White", Unwrap(vertex).weight))]

\* The edge_map closure dropping the edges from a vertex to itself.
bfs_edge_map_no_loops(g) ==
    [e \in EdgesOf(g) |-> IF e[1] = e[2] THEN None ELSE Some(e[3])]

\* The edge_map closure breadth_first_search gives to filter_map.
bfs_edge_map(g) == [e \in EdgesOf(g) |-> Some(e[3])]

\* The test on the source that is left out.
bfs_source_unchecked(graph, src_vertex_idx) == TRUE

\* `graph.get_vertex(src_vertex_idx).is_none()`, negated.
bfs_source_exists(graph, src_vertex_idx) == IsSome(get_vertex(graph, src_vertex_idx))

\* A neighbour taken as new as long as it is not Black.
neighbor_is_new_not_black(neighbor_weight) == neighbor_weight.color # "Black"

\* `neighbor_weight.color == Color::White`
neighbor_is_new(neighbor_weight) == neighbor_weight.color = "White"

\* The neighbour found White with its parent left as it was.
visit_neighbor_no_parent(neighbor_weight, vertex_idx, vertex_distance) ==
    [neighbor_weight EXCEPT !.distance = (vertex_distance + 1) % (U32_MAX + 1),
                            !.color = "Grey"]

\* The neighbour found White with its colour left as it was.
visit_neighbor_stays_white(neighbor_weight, vertex_idx, vertex_distance) ==
    [neighbor_weight EXCEPT !.distance = (vertex_distance + 1) % (U32_MAX + 1),
                            !.parent = Some(vertex_idx)]

\* What is done to a neighbour found White: its distance, its parent and its
\* colour are set.  `vertex_distance + 1` is u32 arithmetic: it wraps at the
\* width of u32.
visit_neighbor(neighbor_weight, vertex_idx, vertex_distance) ==
    [neighbor_weight EXCEPT !.distance = (vertex_distance + 1) % (U32_MAX + 1),
                            !.parent = Some(vertex_idx),
                            !.color = "Grey"]

\* The vertex popped left Grey at the end of its iteration.
finish_vertex_grey(weight) == weight

\* `graph.get_mut_vertex(vertex_idx)?.weight_mut().color = Color::Black`
finish_vertex(weight) == [weight EXCEPT !.color = "Black"]

\* The neighbour found White put at the front of the queue.
push_front(queue, neighbor_idx) == <<neighbor_idx>> \o queue

\* `queue.push_back(*neighbor_idx)`
push_back(queue, neighbor_idx) == Append(queue, neighbor_idx)

\* The for loop over neighbors_cache, `order` being the neighbours still to
\* visit.  acc is the graph, the queue and whether a lookup has failed (the
\* `?` that makes breadth_first_search return None).
RECURSIVE bfs_visit_neighbors(_, _, _, _)
bfs_visit_neighbors(acc, vertex_idx, vertex_distance, order) ==
    IF order = <<>> \/ acc.failed
    THEN acc
    ELSE LET neighbor_idx == Head(order)
             neighbor == get_vertex(acc.graph, neighbor_idx)
         IN  IF neighbor = None
             THEN [acc EXCEPT !.failed = TRUE]
             ELSE IF neighbor_is_new(Unwrap(neighbor).weight)
             THEN bfs_visit_neighbors(
                      [graph  |-> [acc.graph EXCEPT ![neighbor_idx].weight =
                                      visit_neighbor(@, vertex_idx, vertex_distance)],
                       queue  |-> push_back(acc.queue, neighbor_idx),
                       failed |-> FALSE],
                      vertex_idx, vertex_distance, Tail(order))
             ELSE bfs_visit_neighbors(acc, vertex_idx, vertex_distance, Tail(order))

\* One iteration of the while loop, after `queue.pop_front()` returned
\* vertex_idx and left `rest`; `order` is the order of vertex.neighbors().
bfs_iteration(graph, vertex_idx, rest, order) ==
    LET vertex == get_vertex(graph, vertex_idx)
    IN  IF vertex = None
        THEN [graph |-> graph, queue |-> rest, failed |-> TRUE]
        ELSE LET visited == bfs_visit_neighbors(
                                [graph |-> graph, queue |-> rest, failed |-> FALSE],
                                vertex_idx, Unwrap(vertex).weight.distance, order)
             IN  IF visited.failed \/ get_vertex(visited.graph, vertex_idx) = None
                 THEN [visited EXCEPT !.failed = TRUE]
                 ELSE [visited EXCEPT !.graph[vertex_idx].weight = finish_vertex(@)]

\* The neighbours a vertex of the graph hands to neighbors_cache.
bfs_neighbor_ids(graph, vertex_idx) ==
    IF vertex_idx \in DOMAIN graph THEN DOMAIN graph[vertex_idx].edges ELSE {}

\* ----------------------------------------------------------- input graphs

\* The payloads of the graphs given to filter_map and breadth_first_search:
\* neither reads a payload, so one assignment of payloads is taken.
PayloadOf(idx) == IF idx % 2 = 0 THEN "v1" ELSE "v2"
EdgePayloadOf(from, to) == IF (from + to) % 2 = 0 THEN "e1" ELSE "e2"

\* The graph with keys `keys` and edges `pairs`, a set of <<from, to>>.
GraphOf(keys, pairs) ==
    [u \in keys |->
        Vertex(PayloadOf(u),
               [t \in {p[2] : p \in {q \in pairs : q[1] = u}} |-> EdgePayloadOf(u, t)])]

\* The graphs a caller can build on at most n ids with at most m edges: no
\* edge leaves the graph (C1).
InputGraphs(n, m) ==
    UNION {{GraphOf(keys, pairs) :
               pairs \in {ps \in SUBSET (keys \X keys) : Cardinality(ps) <= m}}
           : keys \in SUBSET (0 .. (n - 1))}

\* --------------------------------------------------------------- the state

VARIABLES
    pc,             \* what the program is doing: "api" (calls of the Graph's
                    \* methods), "bfs_start", "bfs_loop", "bfs_done",
                    \* "fm_start", "fm_done"
    vertices,       \* Graph::vertices of the caller's graph
    counter,        \* VERTEX_INCR_IDX, the process-wide counter of VertexIdx::new
    call,           \* one call of the public API, observed: its name, its
                    \* arguments, the graph it was made on (pre) and what it
                    \* returned (ret)
    src_vertex_idx, \* breadth_first_search: its argument
    graph,          \* breadth_first_search: `let mut graph`
    queue,          \* breadth_first_search: `let mut queue`
    iterations,     \* breadth_first_search: the iterations of `while let` begun
    result,         \* breadth_first_search: what it returned
    vertex_map,     \* filter_map: the closure vertex_map, as a function
    edge_map,       \* filter_map: the closure edge_map, as a function
    mapped,         \* filter_map: the graph returned, and the calls of edge_map
    iterated,       \* filter_map: the order in which the vertices, and the
                    \* edges of each vertex, were iterated
    enqueued,       \* breadth_first_search: the ids put in the queue, in order
    dequeued,       \* breadth_first_search: the ids popped from the queue, in order
    threads,        \* VertexIdx::new: where each thread is in its call, and its
                    \* local `idx`
    returned,       \* VertexIdx::new: the ids returned so far, in order
    removed         \* the ids remove_vertex has been called on

api_vars == <<vertices, counter, call>>
bfs_vars == <<src_vertex_idx, graph, queue, iterations, result, enqueued, dequeued>>
fm_vars == <<vertex_map, edge_map, mapped, iterated>>
alloc_vars == <<threads, returned>>
vars == <<pc, api_vars, bfs_vars, fm_vars, alloc_vars, removed>>

NoCall == [op |-> "none"]
NotMapped == [graph |-> Graph_new, calls |-> <<>>]
NotIterated == [vorder |-> <<>>, eorder |-> EmptyMap]

BfsIdle ==
    /\ src_vertex_idx = 0
    /\ graph = Graph_new
    /\ queue = <<>>
    /\ iterations = 0
    /\ result = None
    /\ enqueued = <<>>
    /\ dequeued = <<>>

FmIdle ==
    /\ vertex_map = EmptyMap
    /\ edge_map = EmptyMap
    /\ mapped = NotMapped
    /\ iterated = NotIterated

\* The threads of the process, and a thread that is not in VertexIdx::new().
Threads == 1 .. NumThreads
Idle == [pc |-> "idle", idx |-> 0, retried |-> FALSE, seen |-> 0]

\* No thread is in VertexIdx::new.
AllocIdle == threads = [t \in Threads |-> Idle]

\* The ids the calls of VertexIdx::new made one after the other have returned
\* when the counter is c and has not wrapped.
ReturnedUpTo(c) == [i \in 1 .. c |-> i - 1]

Init ==
    /\ pc = "api"
    /\ vertices = Graph_new
    /\ counter = 0
    /\ call = NoCall
    /\ BfsIdle
    /\ FmIdle
    /\ AllocIdle
    /\ returned = <<>>
    /\ removed = {}

\* Any one call of a behaviour may be the observed one, and the behaviour is
\* followed no further than the observed call.
Observe(record) ==
    /\ call' \in {NoCall, record}
    /\ UNCHANGED <<pc, bfs_vars, fm_vars, threads, removed>>

\* The sequences of at most n elements of S.
RECURSIVE SeqsUpTo(_, _)
SeqsUpTo(S, n) ==
    IF n = 0 THEN {<<>>}
    ELSE LET shorter == SeqsUpTo(S, n - 1)
         IN  shorter \cup {Append(s, x) : s \in shorter, x \in S}

\* The ids a caller can hold: VertexIdx has no public constructor, so they are
\* the ids VertexIdx::new() has returned.
Allocated == {idx \in Ids : idx < counter}

InsertVertex ==
    /\ pc = "api"
    /\ call = NoCall
    /\ counter < MaxIdx
    /\ \E weight \in V :
         \E r \in {insert_vertex(vertices, counter, weight)} :
             /\ vertices' = r.graph
             /\ counter' = r.counter
             /\ returned' = Append(returned, r.ret)
             /\ Observe([op |-> "insert_vertex", pre |-> vertices, weight |-> weight,
                         ret |-> r.ret])

\* Another graph of the process calls insert_vertex: the counter is shared.
InsertVertexElsewhere ==
    /\ pc = "api"
    /\ call = NoCall
    /\ counter < MaxIdx
    /\ counter' = VertexIdx_new(counter).counter
    /\ returned' = Append(returned, VertexIdx_new(counter).idx)
    /\ UNCHANGED <<vertices, call, pc, bfs_vars, fm_vars, threads, removed>>

InsertOrUpdateVertex ==
    /\ pc = "api"
    /\ call = NoCall
    /\ \E weight \in V, idx \in Allocated :
        /\ vertices' = insert_or_update_vertex(vertices, weight, idx)
        /\ Observe([op |-> "insert_or_update_vertex", pre |-> vertices,
                    weight |-> weight, idx |-> idx])
        /\ UNCHANGED <<counter, returned>>

RemoveVertex ==
    /\ pc = "api"
    /\ call = NoCall
    /\ \E idx \in Allocated :
        /\ \E r \in {remove_vertex(vertices, idx)} :
               /\ vertices' = r.graph
               /\ Observe([op |-> "remove_vertex", pre |-> vertices, idx |-> idx,
                           ret |-> r.ret])
        /\ UNCHANGED <<counter, returned>>

InsertOrUpdateEdge ==
    /\ pc = "api"
    /\ call = NoCall
    /\ \E from \in Allocated, to \in Allocated, weight \in E :
        /\ \E r \in {insert_or_update_edge(vertices, from, to, weight)} :
               /\ Cardinality(EdgesOf(r.graph)) <= MaxEdges
               /\ vertices' = r.graph
               /\ Observe([op |-> "insert_or_update_edge", pre |-> vertices,
                           from |-> from, to |-> to, weight |-> weight, ret |-> r.ret])
        /\ UNCHANGED <<counter, returned>>

InsertOrUpdateEdges ==
    /\ pc = "api"
    /\ call = NoCall
    /\ \E edges \in SeqsUpTo(Allocated \X Allocated \X E, MaxBatch) :
        /\ \E g \in {insert_or_update_edges(vertices, edges)} :
               /\ Cardinality(EdgesOf(g)) <= MaxEdges
               /\ vertices' = g
               /\ Observe([op |-> "insert_or_update_edges", pre |-> vertices,
                           edges |-> edges])
        /\ UNCHANGED <<counter, returned>>

RemoveEdge ==
    /\ pc = "api"
    /\ call = NoCall
    /\ \E from \in Allocated, to \in Allocated :
        /\ \E r \in {remove_edge(vertices, from, to)} :
               /\ vertices' = r.graph
               /\ Observe([op |-> "remove_edge", pre |-> vertices, from |-> from,
                           to |-> to, ret |-> r.ret])
        /\ UNCHANGED <<counter, returned>>

Next ==
    \/ InsertVertex
    \/ InsertVertexElsewhere
    \/ InsertOrUpdateVertex
    \/ RemoveVertex
    \/ InsertOrUpdateEdge
    \/ InsertOrUpdateEdges
    \/ RemoveEdge

Spec == Init /\ [][Next]_vars

\* ------------------------------------------- breadth_first_search, by steps

InitBFS ==
    /\ pc = "bfs_start"
    /\ vertices \in InputGraphs(BfsVertices, BfsEdges)
    /\ counter = BfsVertices
    /\ call = NoCall
    /\ src_vertex_idx \in 0 .. (BfsVertices - 1)
    /\ graph = Graph_new
    /\ queue = <<>>
    /\ iterations = 0
    /\ result = None
    /\ enqueued = <<>>
    /\ dequeued = <<>>
    /\ FmIdle
    /\ AllocIdle
    /\ returned = ReturnedUpTo(BfsVertices)
    /\ removed = {}

\* From the call to the while loop: the graph is decorated by filter_map, and
\* None is returned if the source is not in it.
BfsStart ==
    /\ pc = "bfs_start"
    /\ \E vm \in {bfs_vertex_map(vertices, src_vertex_idx)}, em \in {bfs_edge_map(vertices)},
          vorder \in Orders(DOMAIN vertices), eorder \in EdgeOrders(vertices) :
         \E decorated \in {filter_map(vertices, vm, em, vorder, eorder).graph} :
             /\ graph' = decorated
             /\ IF bfs_source_exists(decorated, src_vertex_idx)
                THEN /\ queue' = <<src_vertex_idx>>
                     /\ enqueued' = <<src_vertex_idx>>
                     /\ pc' = "bfs_loop"
                ELSE /\ queue' = <<>>
                     /\ enqueued' = <<>>
                     /\ pc' = "bfs_done"
    /\ result' = None
    /\ UNCHANGED <<api_vars, src_vertex_idx, iterations, dequeued, fm_vars, alloc_vars,
                   removed>>

\* One iteration of `while let Some(vertex_idx) = queue.pop_front()`; a failed
\* lookup returns None.
BfsIterate ==
    /\ pc = "bfs_loop"
    /\ queue # <<>>
    /\ \E order \in Orders(bfs_neighbor_ids(graph, Head(queue))) :
         LET r == bfs_iteration(graph, Head(queue), Tail(queue), order)
         IN  /\ graph' = r.graph
             /\ queue' = r.queue
             /\ enqueued' = enqueued \o SubSeq(r.queue, Len(queue), Len(r.queue))
             /\ pc' = IF r.failed THEN "bfs_done" ELSE "bfs_loop"
    /\ dequeued' = Append(dequeued, Head(queue))
    /\ iterations' = iterations + 1
    /\ result' = None
    /\ UNCHANGED <<api_vars, src_vertex_idx, fm_vars, alloc_vars, removed>>

\* The queue is empty: `Some(graph)`.
BfsReturn ==
    /\ pc = "bfs_loop"
    /\ queue = <<>>
    /\ result' = Some(graph)
    /\ pc' = "bfs_done"
    /\ UNCHANGED <<api_vars, src_vertex_idx, graph, queue, iterations, enqueued, dequeued,
                   fm_vars, alloc_vars, removed>>

NextBFS ==
    \/ BfsStart
    \/ BfsIterate
    \/ BfsReturn

SpecBFS == InitBFS /\ [][NextBFS]_vars

\* breadth_first_search on the graphs of QueueVertices vertices: enough of
\* them for the queue to hold vertices at two distances from the source.
\* The search reads no payload and compares ids for equality only, so the
\* source is taken to be vertex 0: every other call is this one with the
\* ids renamed.  The graphs have every vertex and no edge from a vertex to
\* itself; the graphs with such edges are those of SpecBFS.
InitBFSQueue ==
    /\ pc = "bfs_start"
    /\ vertices \in {GraphOf(0 .. (QueueVertices - 1), pairs) :
                        pairs \in {ps \in SUBSET {p \in (0 .. (QueueVertices - 1))
                                                          \X (0 .. (QueueVertices - 1)) :
                                                      p[1] # p[2]} :
                                      Cardinality(ps) <= BfsEdges}}
    /\ counter = QueueVertices
    /\ call = NoCall
    /\ src_vertex_idx = 0
    /\ graph = Graph_new
    /\ queue = <<>>
    /\ iterations = 0
    /\ result = None
    /\ enqueued = <<>>
    /\ dequeued = <<>>
    /\ FmIdle
    /\ AllocIdle
    /\ returned = ReturnedUpTo(QueueVertices)
    /\ removed = {}

SpecBFSQueue == InitBFSQueue /\ [][NextBFS]_vars

\* ------------------------------------------------------ filter_map, called

\* What vertex_map and edge_map put in the new graph: a payload that names
\* the vertex, or the edge, it was made for.
NewPayloadOf(idx) == <<"nv", idx>>
NewEdgePayloadOf(from, to) == <<"ne", from, to>>

\* The closures: vertex_map keeps any set of the vertices, edge_map any set
\* of the edges.
VertexMaps(g) ==
    {[idx \in DOMAIN g |-> IF idx \in keep THEN Some(NewPayloadOf(idx)) ELSE None]
        : keep \in SUBSET DOMAIN g}
EdgeMaps(g) ==
    {[e \in EdgesOf(g) |-> IF e \in keep THEN Some(NewEdgePayloadOf(e[1], e[2])) ELSE None]
        : keep \in SUBSET EdgesOf(g)}

InitFM ==
    /\ pc = "fm_start"
    /\ vertices \in InputGraphs(MaxIdx, MaxEdges)
    /\ counter = MaxIdx
    /\ call = NoCall
    /\ vertex_map \in VertexMaps(vertices)
    /\ edge_map \in EdgeMaps(vertices)
    /\ mapped = NotMapped
    /\ iterated = NotIterated
    /\ BfsIdle
    /\ AllocIdle
    /\ returned = ReturnedUpTo(MaxIdx)
    /\ removed = {}

FilterMap ==
    /\ pc = "fm_start"
    /\ \E vorder \in Orders(DOMAIN vertices), eorder \in EdgeOrders(vertices) :
         /\ mapped' = filter_map(vertices, vertex_map, edge_map, vorder, eorder)
         /\ iterated' = [vorder |-> vorder, eorder |-> eorder]
    /\ pc' = "fm_done"
    /\ UNCHANGED <<api_vars, vertex_map, edge_map, bfs_vars, alloc_vars, removed>>

NextFM == FilterMap

SpecFM == InitFM /\ [][NextFM]_vars

\* ------------------------------------------ VertexIdx::new, by the threads

\* The calls of VertexIdx::new() the threads make: enough for the counter to
\* come back to zero and go on.
MaxCalls == USIZE_MAX + 2

\* The calls begun: those that have returned and those under way.
CallsBegun == Len(returned) + Cardinality({t \in Threads : threads[t].pc # "idle"})

InitAlloc ==
    /\ pc = "alloc"
    /\ vertices = Graph_new
    /\ counter = 0
    /\ call = NoCall
    /\ BfsIdle
    /\ FmIdle
    /\ AllocIdle
    /\ returned = <<>>
    /\ removed = {}

\* `let mut idx = VERTEX_INCR_IDX.load(Ordering::Relaxed)`.  Every access is
\* to the one atomic VERTEX_INCR_IDX, and the accesses of one atomic are in
\* one order whatever their Ordering: the executions are the interleavings
\* of the loads and of the compare_exchanges of the threads.
AllocLoad ==
    /\ pc = "alloc"
    /\ CallsBegun < MaxCalls
    /\ \E t \in Threads :
        /\ threads[t].pc = "idle"
        /\ threads' = [threads EXCEPT ![t] =
                          [pc |-> "cas", idx |-> counter, retried |-> FALSE,
                           seen |-> Len(returned)]]
    /\ UNCHANGED <<pc, api_vars, bfs_vars, fm_vars, returned, removed>>

\* One turn of `while let Err(new_idx) = VERTEX_INCR_IDX.compare_exchange(..)`:
\* Ok ends the call, which returns Self(idx); Err(new_idx) sets idx to new_idx
\* for the next turn.  Where `idx + 1` does not fit in a usize, a build with
\* overflow checks panics and a build without them wraps the sum.
\* `seen` is how many calls had returned when the thread last read the
\* counter, by the load or by a compare_exchange that failed.
AllocCompareExchangeBy(t) ==
    /\ pc = "alloc"
    /\ threads[t].pc = "cas"
    /\ \/ /\ add_overflows(threads[t].idx)
          /\ threads' = [threads EXCEPT ![t].pc = "panicked"]
          /\ UNCHANGED <<counter, returned>>
       \/ \E r \in {compare_exchange(counter, threads[t].idx,
                                      next_idx(threads[t].idx))} :
             IF r.ok
             THEN /\ counter' = r.counter
                  /\ returned' = Append(returned, threads[t].idx)
                  /\ threads' = [threads EXCEPT ![t] = Idle]
             ELSE /\ threads' = [threads EXCEPT ![t].idx = r.value,
                                                 ![t].retried = TRUE,
                                                 ![t].seen = Len(returned)]
                  /\ UNCHANGED <<counter, returned>>
    /\ UNCHANGED <<pc, vertices, call, bfs_vars, fm_vars, removed>>

AllocCompareExchange == \E t \in Threads : AllocCompareExchangeBy(t)

NextAlloc ==
    \/ AllocLoad
    \/ AllocCompareExchange

SpecAlloc == InitAlloc /\ [][NextAlloc]_vars

\* The calls under a fair scheduler: a thread that is in the loop is given
\* the processor again.  Nothing obliges a thread to begin a call.
SpecAllocFair ==
    /\ InitAlloc
    /\ [][NextAlloc]_vars
    /\ \A t \in Threads : WF_vars(AllocCompareExchangeBy(t))

\* ------------------------------------- vertices inserted, then all removed

\* A caller builds a graph with insert_vertex and insert_or_update_edge, then
\* calls remove_vertex on each id insert_vertex returned, in any order.
InitRoundTrip ==
    /\ pc = "rt_build"
    /\ vertices = Graph_new
    /\ counter = 0
    /\ call = NoCall
    /\ BfsIdle
    /\ FmIdle
    /\ AllocIdle
    /\ returned = <<>>
    /\ removed = {}

RtInsertVertex ==
    /\ pc = "rt_build"
    /\ counter < MaxIdx
    /\ \E weight \in V :
         \E r \in {insert_vertex(vertices, counter, weight)} :
             /\ vertices' = r.graph
             /\ counter' = r.counter
             /\ returned' = Append(returned, r.ret)
    /\ UNCHANGED <<pc, call, bfs_vars, fm_vars, threads, removed>>

RtInsertEdge ==
    /\ pc = "rt_build"
    /\ \E from \in Allocated, to \in Allocated, weight \in E :
         \E r \in {insert_or_update_edge(vertices, from, to, weight)} :
             /\ Cardinality(EdgesOf(r.graph)) <= MaxEdges
             /\ vertices' = r.graph
    /\ UNCHANGED <<pc, counter, call, bfs_vars, fm_vars, alloc_vars, removed>>

RtRemoveVertex ==
    /\ pc \in {"rt_build", "rt_remove"}
    /\ \E idx \in Allocated \ removed :
        /\ vertices' = remove_vertex(vertices, idx).graph
        /\ removed' = removed \cup {idx}
    /\ pc' = "rt_remove"
    /\ UNCHANGED <<counter, call, bfs_vars, fm_vars, alloc_vars>>

NextRoundTrip ==
    \/ RtInsertVertex
    \/ RtInsertEdge
    \/ RtRemoveVertex

SpecRoundTrip == InitRoundTrip /\ [][NextRoundTrip]_vars

\* ------------------------------------------- insert_or_update_edges, called

\* One call of insert_or_update_edges, with a batch of up to BatchLen triples
\* on the ids the process has allocated, on a graph a caller can have built.
InitBatch ==
    /\ pc = "batch_start"
    /\ vertices \in InputGraphs(MaxIdx, BatchEdges)
    /\ counter = MaxIdx
    /\ call = NoCall
    /\ BfsIdle
    /\ FmIdle
    /\ AllocIdle
    /\ returned = ReturnedUpTo(MaxIdx)
    /\ removed = {}

InsertBatch ==
    /\ pc = "batch_start"
    /\ \E edges \in SeqsUpTo(Ids \X Ids \X E, BatchLen) :
        /\ vertices' = insert_or_update_edges(vertices, edges)
        /\ call' = [op |-> "insert_or_update_edges", pre |-> vertices, edges |-> edges]
    /\ pc' = "batch_done"
    /\ UNCHANGED <<counter, bfs_vars, fm_vars, alloc_vars, removed>>

NextBatch == InsertBatch

SpecBatch == InitBatch /\ [][NextBatch]_vars

\* ----------------------------------------------------- claims on the graph

\* Every edge stored in a vertex of g targets a key of g.
NoDanglingEdge(g) ==
    \A u \in DOMAIN g : \A e \in neighbors(g[u]) : e[1] \in DOMAIN g

\* C1: after any sequence of public mutations from the empty graph, every
\* edge u->t stored in a vertex u of the graph has t among the graph's keys;
\* and right after remove_vertex(v) on a present v, no remaining vertex is
\* adjacent to v.
C1_NoDanglingEdge ==
    /\ NoDanglingEdge(vertices)
    /\ (call.op = "remove_vertex" /\ IsSome(call.ret))
         => \A u \in DOMAIN vertices : ~is_adjacent(vertices[u], call.idx)

\* A present vertex that another vertex had an edge to has just been removed.
C1_Witness ==
    /\ call.op = "remove_vertex"
    /\ IsSome(call.ret)
    /\ \E u \in DOMAIN vertices : is_adjacent(call.pre[u], call.idx)

\* C2: insert_or_update_edge(from, to, w) returns None when `to` is not a
\* vertex, whatever `from` is, and when `to` is a vertex and `from` is not;
\* in each of these cases the graph is left as it was.
C2_EdgeInsertNeedsEndpoints ==
    (/\ call.op = "insert_or_update_edge"
     /\ (call.to \notin DOMAIN call.pre \/ call.from \notin DOMAIN call.pre))
        => (call.ret = None /\ vertices = call.pre)

\* An edge from a present vertex that has edges to a removed one was asked for.
C2_Witness ==
    /\ call.op = "insert_or_update_edge"
    /\ call.from \in DOMAIN call.pre
    /\ call.to \notin DOMAIN call.pre
    /\ neighbors(call.pre[call.from]) # {}
    /\ call.ret = None

\* The same refusal with `to` present and `from` absent.
C2_WitnessFromAbsent ==
    /\ call.op = "insert_or_update_edge"
    /\ call.from \notin DOMAIN call.pre
    /\ call.to \in DOMAIN call.pre
    /\ call.ret = None

\* C8: insert_or_update_vertex(new_weight, id) on a present id sets its
\* payload to new_weight and leaves its edges, every other vertex and the
\* vertex count as they were; on an absent id it adds one vertex with payload
\* new_weight and no edges, and changes nothing else.
C8_UpsertPreservesTopology ==
    call.op = "insert_or_update_vertex" =>
        /\ DOMAIN vertices = DOMAIN call.pre \cup {call.idx}
        /\ vertices[call.idx].weight = call.weight
        /\ vertices[call.idx].edges =
              IF call.idx \in DOMAIN call.pre THEN call.pre[call.idx].edges ELSE EmptyMap
        /\ \A u \in DOMAIN call.pre \ {call.idx} : vertices[u] = call.pre[u]
        /\ len(vertices) = len(call.pre) + (IF call.idx \in DOMAIN call.pre THEN 0 ELSE 1)

\* The payload of a vertex with a self-loop, an edge out and an edge in has
\* been replaced by another payload.
C8_Witness ==
    /\ call.op = "insert_or_update_vertex"
    /\ call.idx \in DOMAIN call.pre
    /\ call.pre[call.idx].weight # call.weight
    /\ is_adjacent(call.pre[call.idx], call.idx)
    /\ \E u \in DOMAIN call.pre \ {call.idx} :
          /\ is_adjacent(call.pre[u], call.idx)
          /\ is_adjacent(call.pre[call.idx], u)

\* The upsert of an id that was removed before.
C8_WitnessAbsent ==
    /\ call.op = "insert_or_update_vertex"
    /\ call.idx \notin DOMAIN call.pre
    /\ call.pre # Graph_new

\* C9: remove_vertex(idx) on a present idx returns the vertex as it was just
\* before the call (payload and all outgoing edges, a self-loop included) and
\* changes nothing but deleting idx and the edges that targeted idx; on an
\* absent idx it returns None and changes nothing.
C9_RemoveVertexFrame ==
    call.op = "remove_vertex" =>
        IF call.idx \in DOMAIN call.pre
        THEN /\ call.ret = Some(call.pre[call.idx])
             /\ DOMAIN vertices = DOMAIN call.pre \ {call.idx}
             /\ \A u \in DOMAIN vertices :
                   /\ vertices[u].weight = call.pre[u].weight
                   /\ neighbors(vertices[u]) =
                         {e \in neighbors(call.pre[u]) : e[1] # call.idx}
        ELSE call.ret = None /\ vertices = call.pre

\* A vertex with a self-loop has been removed, and a vertex that had an edge
\* to it and a self-loop of its own remains.
C9_Witness ==
    /\ call.op = "remove_vertex"
    /\ call.idx \in DOMAIN call.pre
    /\ is_adjacent(call.pre[call.idx], call.idx)
    /\ \E u \in DOMAIN vertices :
          /\ is_adjacent(call.pre[u], call.idx)
          /\ is_adjacent(vertices[u], u)

\* C10: with from and to present, insert_or_update_edge(from, to, w) returns
\* Some and leaves from with exactly one edge to `to`, of weight w; from's
\* neighbour count grows by one only if the edge is new; every other edge and
\* every payload is as before.
C10_SingleEdgePerPair ==
    (/\ call.op = "insert_or_update_edge"
     /\ call.from \in DOMAIN call.pre
     /\ call.to \in DOMAIN call.pre)
        => /\ IsSome(call.ret)
           /\ {e \in neighbors(vertices[call.from]) : e[1] = call.to}
                 = {<<call.to, call.weight>>}
           /\ Cardinality(neighbors(vertices[call.from]))
                 = Cardinality(neighbors(call.pre[call.from]))
                   + (IF is_adjacent(call.pre[call.from], call.to) THEN 0 ELSE 1)
           /\ EdgesOf(vertices) \ {<<call.from, call.to, call.weight>>}
                 = {e \in EdgesOf(call.pre) : ~(e[1] = call.from /\ e[2] = call.to)}
           /\ DOMAIN vertices = DOMAIN call.pre
           /\ \A u \in DOMAIN vertices : vertices[u].weight = call.pre[u].weight

\* An edge that was there with another weight has been overwritten, in a
\* graph with other edges.
C10_Witness ==
    /\ call.op = "insert_or_update_edge"
    /\ call.from \in DOMAIN call.pre
    /\ is_adjacent(call.pre[call.from], call.to)
    /\ call.pre[call.from].edges[call.to] # call.weight
    /\ Cardinality(EdgesOf(call.pre)) > 1

\* --------------------------------------- claims on breadth_first_search

\* The targets of the edges leaving the vertices of S.
Successors(g, S) == UNION {DOMAIN g[u].edges : u \in S \cap DOMAIN g}

\* The vertices a directed path of at most k edges leads to from s.
RECURSIVE ReachWithin(_, _, _)
ReachWithin(g, s, k) ==
    IF k = 0 THEN {s}
    ELSE LET nearer == ReachWithin(g, s, k - 1)
         IN  nearer \cup Successors(g, nearer)

Reachable(g, s) == ReachWithin(g, s, Cardinality(DOMAIN g))

\* The least number of edges of a directed path from s to v, v reachable.
ShortestDistance(g, s, v) ==
    CHOOSE k \in 0 .. Cardinality(DOMAIN g) :
        /\ v \in ReachWithin(g, s, k)
        /\ \A j \in 0 .. (k - 1) : v \notin ReachWithin(g, s, j)

BfsReturnedSome == pc = "bfs_done" /\ IsSome(result)

\* C3: in the graph breadth_first_search returns, every vertex reachable from
\* the source has as distance the least number of edges of a directed path
\* from the source to it, in whatever order the neighbours are iterated.
C3_BfsShortestDistances ==
    BfsReturnedSome =>
        \A v \in Reachable(vertices, src_vertex_idx) :
            Unwrap(result)[v].weight.distance
                = ShortestDistance(vertices, src_vertex_idx, v)

\* The search has ended on a graph where a vertex is one edge from the source
\* and also two edges from it, through another vertex.
C3_Witness ==
    /\ BfsReturnedSome
    /\ \E a, b \in DOMAIN vertices :
          /\ a # b /\ a # src_vertex_idx /\ b # src_vertex_idx
          /\ is_adjacent(vertices[src_vertex_idx], a)
          /\ is_adjacent(vertices[src_vertex_idx], b)
          /\ is_adjacent(vertices[a], b)
          /\ Unwrap(result)[b].weight.distance = 1

\* C4: breadth_first_search returns None exactly when the source is not a
\* vertex of the graph; with an absent source it returns before any iteration
\* of the loop, and with a present source no lookup in the loop fails.
C4_BfsNoneIffSourceAbsent ==
    pc = "bfs_done" =>
        /\ result = None <=> src_vertex_idx \notin DOMAIN vertices
        /\ src_vertex_idx \notin DOMAIN vertices => iterations = 0

\* The search was asked from a source that is not in a graph with vertices
\* and edges.
C4_Witness ==
    /\ pc = "bfs_done"
    /\ src_vertex_idx \notin DOMAIN vertices
    /\ EdgesOf(vertices) # {}
    /\ result = None

\* The search from a present source has run its loop several times.
C4_WitnessPresent ==
    /\ BfsReturnedSome
    /\ iterations > 2

\* C5: in the graph breadth_first_search returns, a vertex has the distance
\* u32::MAX and no parent exactly when it is not reachable from the source;
\* a reachable vertex has a distance below u32::MAX, at most |V| - 1.
C5_BfsUnreachableSentinel ==
    BfsReturnedSome =>
        \A w \in DOMAIN vertices :
            LET weight == Unwrap(result)[w].weight
            IN  /\ (weight.distance = U32_MAX /\ weight.parent = None)
                      <=> w \notin Reachable(vertices, src_vertex_idx)
                /\ w \in Reachable(vertices, src_vertex_idx)
                      => /\ weight.distance < U32_MAX
                         /\ weight.distance <= Cardinality(DOMAIN vertices) - 1

\* The search has ended on a graph with a vertex the source does not reach,
\* though it has an edge to the source, and a vertex the source reaches.
C5_Witness ==
    /\ BfsReturnedSome
    /\ \E w \in DOMAIN vertices \ Reachable(vertices, src_vertex_idx) :
          /\ is_adjacent(vertices[w], src_vertex_idx)
          /\ Unwrap(result)[w].weight.distance = U32_MAX
    /\ Reachable(vertices, src_vertex_idx) # {src_vertex_idx}

\* ------------------------------------------------- claims on filter_map

\* The ids vertex_map kept.
Kept == {idx \in DOMAIN vertices : IsSome(vertex_map[idx])}

\* The edges of the input whose two ends vertex_map kept.
KeptEnds == {e \in EdgesOf(vertices) : e[1] \in Kept /\ e[2] \in Kept}

\* C6: the vertices of the graph filter_map returns are the input ids for
\* which vertex_map returned Some(x), each under its input id with payload x,
\* and no others.
C6_FilterMapKeepsIds ==
    pc = "fm_done" =>
        /\ DOMAIN mapped.graph = Kept
        /\ \A idx \in Kept : mapped.graph[idx].weight = Unwrap(vertex_map[idx])

\* filter_map has returned after vertex_map kept a vertex and dropped one.
C6_Witness ==
    /\ pc = "fm_done"
    /\ Kept # {}
    /\ DOMAIN vertices \ Kept # {}
    /\ DOMAIN mapped.graph = Kept

\* C7: edge_map is called on an input edge only if vertex_map kept both its
\* ends, and once on each such edge; the edges of the graph returned are
\* those of them for which edge_map returned Some(w'), from -> to with weight
\* w'; so no edge of the graph returned has an end outside it.
C7_FilterMapEdges ==
    pc = "fm_done" =>
        /\ \A i \in DOMAIN mapped.calls : mapped.calls[i] \in KeptEnds
        /\ \A e \in KeptEnds :
              Cardinality({i \in DOMAIN mapped.calls : mapped.calls[i] = e}) = 1
        /\ EdgesOf(mapped.graph)
              = {<<e[1], e[2], Unwrap(edge_map[e])>> :
                    e \in {k \in KeptEnds : IsSome(edge_map[k])}}
        /\ NoDanglingEdge(mapped.graph)

\* filter_map has returned after passing over an edge to a dropped vertex and
\* an edge from a dropped vertex, and putting an edge in the new graph.
C7_Witness ==
    /\ pc = "fm_done"
    /\ \E e \in EdgesOf(vertices) : e[1] \in Kept /\ e[2] \notin Kept
    /\ \E e \in EdgesOf(vertices) : e[1] \notin Kept /\ e[2] \in Kept
    /\ EdgesOf(mapped.graph) # {}

\* filter_map has returned after edge_map dropped one edge between kept
\* vertices and kept another.
C7_WitnessEdgeDropped ==
    /\ pc = "fm_done"
    /\ \E e \in KeptEnds : edge_map[e] = None
    /\ EdgesOf(mapped.graph) # {}

\* ------------------------------------ claims on insert_or_update_edges

\* insert_or_update_edge called on each triple of `edges` in turn, each result
\* ignored.
RECURSIVE EdgeByEdge(_, _)
EdgeByEdge(g, edges) ==
    IF edges = <<>>
    THEN g
    ELSE EdgeByEdge(insert_or_update_edge(g, Head(edges)[1], Head(edges)[2],
                                          Head(edges)[3]).graph,
                    Tail(edges))

\* The triples of `edges` whose two ends are vertices of g.
Applicable(g, edges) ==
    {i \in DOMAIN edges : edges[i][1] \in DOMAIN g /\ edges[i][2] \in DOMAIN g}

\* C11: insert_or_update_edges leaves the graph as calling
\* insert_or_update_edge on each triple in order, each result ignored, does;
\* a triple with an absent end is skipped and the others are applied, so the
\* edge of every pair named by a triple with both ends present is there with
\* the weight of the last such triple, and everything else is as it was.
C11_BatchIsEdgeByEdge ==
    pc = "batch_done" =>
        /\ vertices = EdgeByEdge(call.pre, call.edges)
        /\ DOMAIN vertices = DOMAIN call.pre
        /\ \A u \in DOMAIN vertices : vertices[u].weight = call.pre[u].weight
        /\ \A i \in Applicable(call.pre, call.edges) :
              LET same == {j \in Applicable(call.pre, call.edges) :
                             /\ call.edges[j][1] = call.edges[i][1]
                             /\ call.edges[j][2] = call.edges[i][2]}
                  last == CHOOSE j \in same : \A k \in same : k <= j
              IN  MapGet(vertices[call.edges[i][1]].edges, call.edges[i][2])
                      = Some(call.edges[last][3])
        /\ \A e \in EdgesOf(vertices) :
              \/ e \in EdgesOf(call.pre)
              \/ \E i \in Applicable(call.pre, call.edges) : call.edges[i] = e

\* A batch whose first triple has an absent end and whose second has both
\* ends present has been applied.
C11_Witness ==
    /\ pc = "batch_done"
    /\ Len(call.edges) = 2
    /\ 1 \notin Applicable(call.pre, call.edges)
    /\ 2 \in Applicable(call.pre, call.edges)
    /\ vertices # call.pre

\* A batch that names one pair twice, with two weights, has been applied to a
\* graph that had the edge.
C11_WitnessRepeated ==
    /\ pc = "batch_done"
    /\ Len(call.edges) = 2
    /\ Applicable(call.pre, call.edges) = {1, 2}
    /\ call.edges[1][1] = call.edges[2][1]
    /\ call.edges[1][2] = call.edges[2][2]
    /\ call.edges[1][3] # call.edges[2][3]
    /\ is_adjacent(call.pre[call.edges[1][1]], call.edges[1][2])

\* ------------------------------------------------- claims on remove_edge

\* C12: remove_edge(from, to) returns Some(w) and deletes the edge from->to,
\* and nothing else, when that edge is there with weight w; it returns None
\* and leaves the graph as it was when from is absent, when to is absent, and
\* when both are vertices with no edge from->to.
C12_RemoveEdgeFrame ==
    call.op = "remove_edge" =>
        IF call.from \in DOMAIN call.pre /\ is_adjacent(call.pre[call.from], call.to)
        THEN LET w == call.pre[call.from].edges[call.to]
             IN  /\ call.ret = Some(w)
                 /\ EdgesOf(vertices) = EdgesOf(call.pre) \ {<<call.from, call.to, w>>}
                 /\ DOMAIN vertices = DOMAIN call.pre
                 /\ \A u \in DOMAIN vertices : vertices[u].weight = call.pre[u].weight
        ELSE call.ret = None /\ vertices = call.pre

\* An edge has been removed from a vertex that keeps another edge, the edge
\* back from its target staying too.
C12_Witness ==
    /\ call.op = "remove_edge"
    /\ IsSome(call.ret)
    /\ call.from # call.to
    /\ neighbors(vertices[call.from]) # {}
    /\ is_adjacent(vertices[call.to], call.from)

\* The removal of an edge to an id that is no longer a vertex, from a vertex
\* that has edges.
C12_WitnessToAbsent ==
    /\ call.op = "remove_edge"
    /\ call.from \in DOMAIN call.pre
    /\ call.to \notin DOMAIN call.pre
    /\ neighbors(call.pre[call.from]) # {}
    /\ call.ret = None

\* The removal of an edge that is not there between two vertices, and of an
\* edge from an id that is no longer a vertex.
C12_WitnessNoEdge ==
    /\ call.op = "remove_edge"
    /\ call.from \in DOMAIN call.pre
    /\ call.to \in DOMAIN call.pre
    /\ ~is_adjacent(call.pre[call.from], call.to)
    /\ is_adjacent(call.pre[call.to], call.from)

\* --------------------------------------------- claims on VertexIdx::new

\* C13: whatever the number of threads in VertexIdx::new() and however their
\* loads and compare_exchanges interleave, no two calls return the same id as
\* long as the calls that have returned are no more than the ids there are.
C13_ConcurrentIdsUnique ==
    Len(returned) <= USIZE_MAX =>
        \A i, j \in DOMAIN returned : i # j => returned[i] # returned[j]

\* Two threads were in VertexIdx::new() with the same idx: one has returned
\* it, and the other, its compare_exchange refused, is at its next turn.
C13_Witness ==
    /\ Len(returned) >= 2
    /\ Len(returned) <= USIZE_MAX
    /\ \E t \in Threads :
          /\ threads[t].pc = "cas"
          /\ threads[t].retried
          /\ threads[t].idx = counter

\* No call of VertexIdx::new() has panicked, and no thread is about to add 1
\* to an idx that is usize::MAX.
NoOverflow ==
    \A t \in Threads :
        /\ threads[t].pc # "panicked"
        /\ threads[t].pc = "cas" => ~add_overflows(threads[t].idx)

\* The ids returned go up by one from 0, and the id after `last` is 0.
CountsUpTo(last) ==
    /\ returned # <<>> => returned[1] = 0
    /\ \A i \in 1 .. (Len(returned) - 1) :
          returned[i + 1] = IF returned[i] = last THEN 0 ELSE returned[i] + 1

\* C14 as claimed: VertexIdx::new() never overflows or panics, and the
\* counter goes up to the maximum representable value, usize::MAX, wraps to
\* zero there and goes on from zero.
C14_WrapsAtMaximum ==
    /\ NoOverflow
    /\ CountsUpTo(USIZE_MAX)

\* C14, amended: VertexIdx::new() never overflows or panics; the counter
\* never holds usize::MAX: from usize::MAX - 1 it wraps to zero, so the id
\* usize::MAX is never returned, and allocation goes on from zero.
C14_WrapsBelowMaximum ==
    /\ NoOverflow
    /\ counter < USIZE_MAX
    /\ \A i \in DOMAIN returned : returned[i] < USIZE_MAX
    /\ CountsUpTo(USIZE_MAX - 1)

\* The id usize::MAX - 1 has been returned, then the id 0 again, and a thread
\* whose compare_exchange was refused goes on with the idx 1.
C14_Witness ==
    /\ \E i \in DOMAIN returned :
          /\ returned[i] = USIZE_MAX - 1
          /\ i + 1 \in DOMAIN returned
          /\ returned[i + 1] = 0
    /\ \E t \in Threads :
          /\ threads[t].pc = "cas"
          /\ threads[t].retried
          /\ threads[t].idx = 1

\* ----------------------------------------------- claims on insert_vertex

\* C15: while the counter has not wrapped, insert_vertex(weight) returns an
\* id that no call returned before and that is not a key of the graph, adds
\* one vertex under it with the given payload and no edges (len grows by
\* one), and leaves every vertex that was there as it was; the ids returned
\* go up strictly in the order of the calls.
C15_InsertVertexFresh ==
    /\ \A i, j \in DOMAIN returned : i < j => returned[i] < returned[j]
    /\ call.op = "insert_vertex" =>
          /\ returned[Len(returned)] = call.ret
          /\ \A i \in 1 .. (Len(returned) - 1) : returned[i] # call.ret
          /\ call.ret \notin DOMAIN call.pre
          /\ DOMAIN vertices = DOMAIN call.pre \cup {call.ret}
          /\ vertices[call.ret].weight = call.weight
          /\ neighbors(vertices[call.ret]) = {}
          /\ len(vertices) = len(call.pre) + 1
          /\ \A u \in DOMAIN call.pre : vertices[u] = call.pre[u]

\* A vertex has been inserted in a graph that has a vertex with an edge,
\* after ids were returned.
C15_Witness ==
    /\ call.op = "insert_vertex"
    /\ call.ret > 0
    /\ EdgesOf(call.pre) # {}
    /\ len(vertices) = 2

\* A vertex has been inserted in a graph left empty by a removal.
C15_WitnessAfterRemoval ==
    /\ call.op = "insert_vertex"
    /\ call.ret > 0
    /\ is_empty(call.pre)
    /\ len(vertices) = 1

\* ------------------------------ claims on breadth_first_search, continued

\* C16: the graph breadth_first_search returns has every vertex of the input,
\* reachable or not, under the same id and wrapping the same payload, and an
\* edge u->t exactly when the input has it, with the same weight; the input
\* graph is not changed by the call.
C16_BfsKeepsTopology ==
    /\ [][vertices' = vertices]_vars
    /\ [](BfsReturnedSome =>
            /\ DOMAIN Unwrap(result) = DOMAIN vertices
            /\ \A u \in DOMAIN vertices :
                  Unwrap(result)[u].weight.weight = vertices[u].weight
            /\ EdgesOf(Unwrap(result)) = EdgesOf(vertices))

\* The search has returned on a graph with a vertex the source does not
\* reach, a self-loop and an edge between two vertices.
C16_Witness ==
    /\ BfsReturnedSome
    /\ DOMAIN vertices \ Reachable(vertices, src_vertex_idx) # {}
    /\ \E e \in EdgesOf(vertices) : e[1] = e[2]
    /\ \E e \in EdgesOf(Unwrap(result)) : e[1] # e[2]

\* ------------------------------------------------ claims on the round trip

\* The ids insert_vertex has returned.
Inserted == {returned[i] : i \in DOMAIN returned}

\* C17: after N vertices were inserted with insert_vertex, with any edges
\* between them, and remove_vertex was called on each of the N ids, in any
\* order, the graph is empty (len() is 0, is_empty() holds) and get_vertex
\* returns None for each of the N ids.
C17_RoundTripEmpty ==
    (pc = "rt_remove" /\ removed = Inserted) =>
        /\ len(vertices) = 0
        /\ is_empty(vertices)
        /\ \A idx \in Inserted : get_vertex(vertices, idx) = None

\* As many vertices as the model allows were inserted, and every one of them
\* has been removed.
C17_Witness ==
    /\ pc = "rt_remove"
    /\ Cardinality(Inserted) = MaxIdx
    /\ removed = Inserted
    /\ is_empty(vertices)

\* The vertices of the input that the source reaches.
Reached == Reachable(vertices, src_vertex_idx) \cap DOMAIN vertices

\* C18: in the graph breadth_first_search returns, the source has no parent
\* and every other vertex reached has a parent p that is reached, has an edge
\* to it in the graph and is one nearer the source; during the search the
\* distance and the parent of a vertex are set at most once, while it is
\* White, and never changed after.
C18_BfsParentTree ==
    /\ [](BfsReturnedSome =>
            /\ Unwrap(result)[src_vertex_idx].weight.parent = None
            /\ \A v \in Reached \ {src_vertex_idx} :
                  LET weight == Unwrap(result)[v].weight
                  IN  /\ IsSome(weight.parent)
                      /\ Unwrap(weight.parent) \in Reached
                      /\ is_adjacent(vertices[Unwrap(weight.parent)], v)
                      /\ is_adjacent(Unwrap(result)[Unwrap(weight.parent)], v)
                      /\ weight.distance
                            = Unwrap(result)[Unwrap(weight.parent)].weight.distance + 1)
    /\ [][\A v \in DOMAIN graph :
              (\/ graph'[v].weight.distance # graph[v].weight.distance
               \/ graph'[v].weight.parent # graph[v].weight.parent)
                  => /\ graph[v].weight.color = "White"
                     /\ graph[v].weight.distance = U32_MAX
                     /\ graph[v].weight.parent = None
                     /\ graph'[v].weight.color # "White"]_vars

\* The search has returned on a graph where a vertex is two edges from the
\* source, which it has an edge back to: its parent is not the source.
C18_Witness ==
    /\ BfsReturnedSome
    /\ \E v \in Reached :
          /\ Unwrap(result)[v].weight.distance = 2
          /\ is_adjacent(vertices[v], src_vertex_idx)
          /\ Unwrap(Unwrap(result)[v].weight.parent) # src_vertex_idx

\* The search has returned on a graph where the source has a self-loop and
\* two vertices each have an edge to the other.
C18_WitnessSelfLoop ==
    /\ BfsReturnedSome
    /\ is_adjacent(vertices[src_vertex_idx], src_vertex_idx)
    /\ \E v \in Reached \ {src_vertex_idx} :
          is_adjacent(vertices[v], src_vertex_idx)

\* The steps a colour takes.
ColorSteps ==
    {<<"White", "White">>, <<"White", "Grey">>, <<"Grey", "Grey">>,
     <<"Grey", "Black">>, <<"Black", "Black">>}

\* C19: during breadth_first_search the colour of a vertex only goes from
\* White to Grey and from Grey to Black, never back and never from White to
\* Black; when the search ends every vertex the source reaches is Black and
\* every other vertex is White: none is left Grey.
C19_BfsColorMachine ==
    /\ [][\A v \in DOMAIN graph :
              <<graph[v].weight.color, graph'[v].weight.color>> \in ColorSteps]_vars
    /\ [](pc = "bfs_done" =>
            \A v \in DOMAIN graph :
                graph[v].weight.color = IF v \in Reached THEN "Black" ELSE "White")

\* The search has ended on a graph where the source reaches a vertex that
\* has an edge back to it, and does not reach a vertex that has an edge to it.
C19_Witness ==
    /\ BfsReturnedSome
    /\ \E v \in Reached \ {src_vertex_idx} :
          /\ is_adjacent(vertices[v], src_vertex_idx)
          /\ graph[v].weight.color = "Black"
    /\ \E w \in DOMAIN vertices \ Reached :
          /\ is_adjacent(vertices[w], src_vertex_idx)
          /\ graph[w].weight.color = "White"

\* No value is twice in the sequence.
NoRepeat(seq) == \A i, j \in DOMAIN seq : i # j => seq[i] # seq[j]

\* What is left of the search at most: the filter_map and the iterations of
\* the loop, one for each vertex not popped yet, and the return.
BfsMeasure ==
    CASE pc = "bfs_start" -> Cardinality(DOMAIN vertices) + 2
      [] pc = "bfs_loop"  -> Cardinality(DOMAIN vertices) + 1 - iterations
      [] OTHER            -> 0

\* C20: on every graph, with cycles and self-loops, breadth_first_search
\* comes to its end: the loop has a next step until the search returns, and
\* every step brings down a measure that is never below zero; a vertex is put
\* in the queue at most once and popped at most once, so the loop runs at
\* most |V| times, and the queue is empty at the end.
C20_BfsTerminates ==
    /\ [](pc = "bfs_loop" => ENABLED (BfsIterate \/ BfsReturn))
    /\ [](BfsMeasure >= 0)
    /\ [][BfsMeasure' < BfsMeasure]_vars
    /\ [](/\ NoRepeat(enqueued)
           /\ NoRepeat(dequeued)
           /\ iterations <= Cardinality(DOMAIN vertices)
           /\ iterations = Len(dequeued))
    /\ [](pc = "bfs_done" => queue = <<>>)

\* The search has ended after as many iterations as there are vertices, on a
\* graph with a cycle through the source.
C20_Witness ==
    /\ BfsReturnedSome
    /\ iterations = BfsVertices
    /\ queue = <<>>
    /\ \E v \in DOMAIN vertices \ {src_vertex_idx} :
          /\ is_adjacent(vertices[v], src_vertex_idx)
          /\ is_adjacent(vertices[src_vertex_idx], v)

\* The same on a graph where a vertex the source reaches has a self-loop.
C20_WitnessSelfLoop ==
    /\ BfsReturnedSome
    /\ iterations = BfsVertices
    /\ \E v \in Reached \ {src_vertex_idx} : is_adjacent(vertices[v], v)

\* ------------------------------------- claims on filter_map, continued

\* The second loop of a filter_map that tests `from` and `to` for each edge on
\* its own, and goes on to the next edge of the same vertex when either is
\* not in the new graph.
RECURSIVE PerEdge(_, _, _, _, _)
PerEdge(g, emap, from, tos, acc) ==
    IF tos = <<>>
    THEN acc
    ELSE LET to == Head(tos)
             old_edge == g[from].edges[to]
         IN  IF from \notin DOMAIN acc.graph \/ to \notin DOMAIN acc.graph
             THEN PerEdge(g, emap, from, Tail(tos), acc)
             ELSE PerEdge(g, emap, from, Tail(tos),
                      [graph |-> IF IsSome(emap[<<from, to, old_edge>>])
                                 THEN [acc.graph EXCEPT ![from].edges =
                                          MapInsert(@, to,
                                              Unwrap(emap[<<from, to, old_edge>>]))]
                                 ELSE acc.graph,
                       calls |-> Append(acc.calls, <<from, to, old_edge>>)])

RECURSIVE PerEdgeOuter(_, _, _, _, _)
PerEdgeOuter(g, emap, froms, eorder, acc) ==
    IF froms = <<>>
    THEN acc
    ELSE PerEdgeOuter(g, emap, Tail(froms), eorder,
             PerEdge(g, emap, Head(froms), eorder[Head(froms)], acc))

\* The graph and the calls of edge_map of that filter_map, the maps iterated
\* in the same orders.
PerEdgeFilterMap(g, vmap, emap, vorder, eorder) ==
    PerEdgeOuter(g, emap, vorder, eorder,
        [graph |-> [idx \in {k \in DOMAIN g : IsSome(vmap[k])} |->
                       Vertex(Unwrap(vmap[idx]), EmptyMap)],
         calls |-> <<>>])

\* C21: leaving for the next vertex as soon as `from` is found absent cannot
\* be observed: the graph filter_map returns and the sequence of its calls of
\* edge_map are those of a filter_map that tests `from` and `to` for each
\* edge on its own, the maps iterated in the same orders; so edge_map is
\* called on every edge whose two ends were kept.
C21_ShortCircuitUnobservable ==
    pc = "fm_done" =>
        /\ mapped = PerEdgeFilterMap(vertices, vertex_map, edge_map,
                                     iterated.vorder, iterated.eorder)
        /\ \A e \in KeptEnds : \E i \in DOMAIN mapped.calls : mapped.calls[i] = e

\* filter_map has returned on a graph where a dropped vertex has two edges,
\* one of them to a kept vertex, and a kept vertex has an edge that is kept.
C21_Witness ==
    /\ pc = "fm_done"
    /\ \E u \in DOMAIN vertices \ Kept :
          /\ Cardinality(DOMAIN vertices[u].edges) >= 2
          /\ \E t \in Kept : is_adjacent(vertices[u], t)
    /\ EdgesOf(mapped.graph) # {}

\* ------------------------------- claims on breadth_first_search, continued

IsGrey(idx) == graph[idx].weight.color = "Grey"
DistanceOf(idx) == graph[idx].weight.distance

\* C22: at every boundary between two iterations of the while loop, the loop's
\* entry and its exit included, the queue holds exactly the Grey vertices,
\* each once, their distances never decrease from the front to the back, and
\* the distance at the back is at most one more than the distance at the
\* front.
C22_BfsQueueInvariant ==
    pc = "bfs_loop" =>
        /\ {queue[i] : i \in DOMAIN queue} = {idx \in DOMAIN graph : IsGrey(idx)}
        /\ NoRepeat(queue)
        /\ \A i, j \in DOMAIN queue :
              i < j => DistanceOf(queue[i]) <= DistanceOf(queue[j])
        /\ queue # <<>> =>
              DistanceOf(queue[Len(queue)]) - DistanceOf(Head(queue)) <= 1

\* After two iterations the queue holds a vertex at distance 1 in front of a
\* vertex at distance 2.
C22_Witness ==
    /\ pc = "bfs_loop"
    /\ iterations = 2
    /\ Len(queue) >= 2
    /\ DistanceOf(Head(queue)) = 1
    /\ DistanceOf(queue[Len(queue)]) = 2

\* The loop is left with no Grey vertex after every vertex was queued.
C22_WitnessExit ==
    /\ pc = "bfs_loop"
    /\ queue = <<>>
    /\ iterations = QueueVertices
    /\ \A idx \in DOMAIN graph : graph[idx].weight.color = "Black"

\* ------------------------------------- claims on VertexIdx::new, continued

\* The step is a compare_exchange of thread t that failed.
FailedBy(t) ==
    /\ threads[t].pc = "cas"
    /\ threads'[t].pc = "cas"
    /\ threads'[t] # threads[t]

\* C23: the threads being finitely many and making finitely many calls, under
\* a fair scheduler every call of VertexIdx::new() that has begun returns; a
\* compare_exchange of a call fails only if a compare_exchange of another
\* call has succeeded since the call last read the counter, and no call
\* panics.
C23_AllocatorProgress ==
    /\ \A t \in Threads : (threads[t].pc = "cas") ~> (threads[t].pc = "idle")
    /\ [][\A t \in Threads : FailedBy(t) => Len(returned) > threads[t].seen]_vars
    /\ [](\A t \in Threads : threads[t].pc # "panicked")
    /\ <>[](\A t \in Threads : threads[t].pc = "idle")

\* A call whose compare_exchange has failed after two other calls returned
\* holds the counter's value again: its next compare_exchange succeeds.
C23_Witness ==
    \E t \in Threads :
        /\ threads[t].pc = "cas"
        /\ threads[t].retried
        /\ threads[t].seen = Len(returned)
        /\ threads[t].idx = counter
        /\ Len(returned) >= 2

=============================================================================
